---- MODULE Spec2Model ----
(***************************************************************************)
(* Model of the application runners of ashep/go-apprun (src/apprun/run.go). *)
(* The file holds three generations of the runner:                          *)
(*   "Runner"    runner.Runner with its builder calls and Run() int         *)
(*   "Run"       apprun.Run(f, appCfg, appName, appVer, lw) int             *)
(*   "RunLegacy" apprun.Run(f, cfg), which ends the process with os.Exit    *)
(* The primary path of each is a sequence of steps; the signal listener and *)
(* the auxiliary HTTP server run as background tasks interleaved with it.   *)
(***************************************************************************)
EXTENDS Integers, Sequences, FiniteSets, TLC

\* ---------------------------------------------------------------- bounds
MaxSignals == 2
MaxBuilderCalls == 2
MaxRuns == 2
MaxConns == 1

\* ------------------------------------------------------- configuration
Variants == {"Runner", "Run", "RunLegacy"}

Fields == {"timeout", "retries"}

\* The global appName; the legacy runner defaults it to "app".
appName == "app"

\* The same name as a sequence of characters.
AppNameChars == <<"a", "p", "p">>

\* The convention-based paths in the order the nested loops visit them:
\* for base in {"config", appName}, for ext in {".yaml", ".json"}.
ConvBases == <<"config", appName>>
ConvExts == <<".yaml", ".json">>
\* Mutant: the loops nested the other way round (extension outside).
ConvPath_ExtOuter(i) == <<ConvBases[((i - 1) % Len(ConvBases)) + 1], ConvExts[((i - 1) \div Len(ConvBases)) + 1]>>

ConvPath(i) == <<ConvBases[((i - 1) \div Len(ConvExts)) + 1], ConvExts[((i - 1) % Len(ConvExts)) + 1]>>
NumConv == Len(ConvBases) * Len(ConvExts)

\* The file APP_CONFIG_PATH names when it is set.
ExplicitPath == <<"/etc/app/override", ".yaml">>

\* The sources of a run, named 1..EnvSrc: the four convention files, the
\* explicit file and the environment overlay.
SourceFiles == <<<<"config", ".yaml">>, <<"config", ".json">>, <<appName, ".yaml">>, <<appName, ".json">>, ExplicitPath>>
PathSrc == Len(SourceFiles)
EnvSrc == PathSrc + 1
SrcOf(p) == CHOOSE k \in 1..PathSrc : SourceFiles[k] = p

\* Every source writes a value of its own, so the winner of a field is
\* visible; the base configuration holds 30 in every field.
SrcVal(k) == <<60, 65, 70, 75, 80, 90>>[k]
BaseCfg == [f \in Fields |-> 30]

\* The content of a source: absent, unreadable/malformed, or a valid mapping
\* that sets the fields in DOMAIN vals.
Content(kind, S, k) == [kind |-> kind, vals |-> [f \in S |-> SrcVal(k)]]
NonEmptySets == (SUBSET Fields) \ {{}}
EnvContents == {Content("bad", {}, EnvSrc)} \cup {Content("ok", S, EnvSrc) : S \in SUBSET Fields}

\* cfgloader: the fields a source sets overwrite those of the value, the
\* others are kept.
ApplyOverrides(c, o) == [f \in Fields |-> IF f \in DOMAIN o THEN o[f] ELSE c[f]]

\* Mutant: the values of a file are merged into the current ones (as an
\* append to a list field would be) instead of replacing them.
LoadFromPath_Accumulate(fsys, p, c) ==
    CASE fsys[p].kind = "missing" -> [err |-> "ErrNotExist", cfg |-> c]
      [] fsys[p].kind = "bad" -> [err |-> "ErrLoad", cfg |-> c]
      [] OTHER -> [err |-> "nil", cfg |-> [f \in Fields |-> IF f \in DOMAIN fsys[p].vals THEN c[f] + fsys[p].vals[f] ELSE c[f]]]

\* cfgloader.LoadFromPath(path, &cfg, nil) against the file system fsys.
LoadFromPath(fsys, p, c) ==
    CASE fsys[p].kind = "missing" -> [err |-> "ErrNotExist", cfg |-> c]
      [] fsys[p].kind = "bad" -> [err |-> "ErrLoad", cfg |-> c]
      [] OTHER -> [err |-> "nil", cfg |-> ApplyOverrides(c, fsys[p].vals)]

\* cfgloader.LoadFromEnv(prefix, &cfg) against the environment overlay ev.
LoadFromEnv(ev, c) ==
    IF ev.kind = "bad" THEN [err |-> "ErrLoad", cfg |-> c]
    ELSE [err |-> "nil", cfg |-> ApplyOverrides(c, ev.vals)]

\* The application names a run is started with: the default, and names
\* with one or both separator characters, repeated and adjacent.
AppNames == {AppNameChars, <<"m", "y", "-", "a", "p", "p">>, <<"a", ".", "b">>, <<"a", "-", ".", "b", "-", "c">>}

\* strings.ReplaceAll(s, old, new) for one-character old and new.
RECURSIVE ReplaceAll(_, _, _)
ReplaceAll(s, old, new) ==
    IF s = <<>> THEN <<>>
    ELSE <<IF Head(s) = old THEN new ELSE Head(s)>> \o ReplaceAll(Tail(s), old, new)

\* Mutant: only the dashes of the name are replaced.
EnvPrefix_DashOnly(v, name) ==
    IF v = "RunLegacy" THEN ReplaceAll(name, "-", "_") ELSE <<"A", "P", "P">>

\* The prefix handed to cfgloader.LoadFromEnv: the legacy runner derives it
\* from the application name, Runner.Run and Run pass the literal "APP".
EnvPrefix(v, name) ==
    IF v = "RunLegacy"
    THEN ReplaceAll(ReplaceAll(name, "-", "_"), ".", "_")
    ELSE <<"A", "P", "P">>

\* The inputs of a run: the files, APP_CONFIG_PATH and the overlay.  The
\* legacy runner reads no convention file, so none is enumerated for it.
FileShapes == {[kind |-> "missing", set |-> {}], [kind |-> "bad", set |-> {}]} \cup {[kind |-> "ok", set |-> S] : S \in NonEmptySets}
Paths == {SourceFiles[k] : k \in 1..PathSrc}
FileSystems == {[p \in Paths |-> Content(sh[p].kind, sh[p].set, SrcOf(p))] : sh \in [Paths -> FileShapes]}
AllInputs(v) ==
    {i \in [fs : FileSystems, envPath : {<<>>, ExplicitPath}, envVars : EnvContents] :
        /\ i.envPath = <<>> => i.fs[ExplicitPath].kind = "missing"
        /\ v = "RunLegacy" => \A k \in 1..NumConv : i.fs[SourceFiles[k]].kind = "missing"}

\* The inputs the lifecycle specification runs over: one file that may be
\* present, one that may be malformed, the explicit path and the overlay.
LifecycleInputs(v) ==
    {i \in AllInputs(v) :
        /\ i.fs[SourceFiles[1]] \in {Content("missing", {}, 1), Content("ok", {"timeout"}, 1)}
        /\ i.fs[SourceFiles[2]] \in {Content("missing", {}, 2), Content("bad", {}, 2)}
        /\ \A k \in 3..NumConv : i.fs[SourceFiles[k]].kind = "missing"
        /\ i.fs[ExplicitPath].kind = "missing"
        /\ i.envVars \in {Content("bad", {}, EnvSrc), Content("ok", {"timeout"}, EnvSrc)}}

\* ------------------------------------------------------- primary path
\* The steps of each runner in source order.  "factory", "appRun" and
\* "shutdown" are calls the path waits in ("inFactory", "inRun",
\* "inShutdown") until they return.
\* Mutant: the server goroutine is started before the factory is called.
RunnerSteps_ServerFirst == <<"start", "conv", "path", "env", "notify", "gosrv", "factory", "ctx", "golisten", "appRun", "shutdown", "return">>

\* Mutant: the signals are registered only after the factory returned.
RunnerSteps_NotifyLate == <<"start", "conv", "path", "env", "factory", "notify", "ctx", "golisten", "gosrv", "appRun", "shutdown", "return">>

RunnerSteps == <<"start", "conv", "path", "env", "notify", "factory", "ctx", "golisten", "gosrv", "appRun", "shutdown", "return">>
RunSteps == <<"start", "conv", "path", "env", "ctx", "notify", "golisten", "factory", "appRun", "return">>
RunLegacySteps == <<"start", "path", "env", "ctx", "notify", "golisten", "factory", "appRun", "return">>

Steps(v) ==
    CASE v = "Runner" -> RunnerSteps
      [] v = "Run" -> RunSteps
      [] OTHER -> RunLegacySteps

Pos(s, l) == CHOOSE i \in 1..Len(s) : s[i] = l
After(v, l) == Steps(v)[Pos(Steps(v), l) + 1]

\* Mutant: sig := make(chan os.Signal), a channel with no buffer.
SigChanCap_Unbuffered == 1 - 1

\* sig := make(chan os.Signal, 1)
SigChanCap == 1
Signals == {"SIGINT", "SIGTERM"}

\* r.rt.SrvMux: nil until a server is set, then a mux with its routes.
NilMux == [nonNil |-> FALSE, routes |-> {}]
NewServeMux == [nonNil |-> TRUE, routes |-> {}]

VARIABLES
    variant,      \* which runner executes
    pc,           \* position of the primary path
    idx,          \* index of the convention file loop
    cfg,          \* the configuration value being resolved (r.cfg / appCfg / cfg)
    fs,           \* file system: path -> content
    envPath,      \* APP_CONFIG_PATH: <<>> (unset or empty) or ExplicitPath
    envVars,      \* the environment overlay (a content)
    applied,      \* sources loaded without error so far, in order
    srv,          \* r.srv: "nil" | "custom" | "default"
    mux,          \* r.rt.SrvMux
    lw,           \* number of log writers (len(r.lw))
    builderCalls, \* builder calls made so far
    notified,     \* signal.Notify(sig, SIGINT, SIGTERM) has been called
    sigChan,      \* the channel sig, capacity 1
    delivered,    \* termination signals sent to the process so far
    ctx,          \* "none" | "active" | "cancelled"
    cancelledBy,  \* "none" | "signal" | "defer"
    listener,     \* signal listener goroutine: "none" | "waiting" | "done"
    srvTask,      \* server goroutine: "none" | "spawned" | "serving" | "closed" | "failed"
    inShutdownFlag, \* http.Server.inShutdown
    shutdownErr,  \* Shutdown returned an error
    spawned,      \* goroutines started, in order
    factoryCalls, \* invocations of the factory
    factoryCfg,   \* configuration handed to the factory (<<>> before)
    runCalls,     \* invocations of the application's Run
    runReturns,   \* returns of the application's Run
    shutdownCalls, \* invocations of srv.Shutdown
    outcome,      \* results of the fatal steps: cfg, fct, run in {"none","ok","err"},
                  \* and the source whose load failed (at, 0 when none)
    earlySig,     \* a signal arrived after signal.Notify and before app.Run was invoked
    killed,       \* the process was ended by the default action of a signal
    exitCode,     \* value returned by Run or given to os.Exit; -1 before
    appChars,     \* the application name, character by character
    envPrefix,    \* prefix handed to cfgloader.LoadFromEnv (<<>> before)
    activeConns,  \* connections of the auxiliary server that are not idle
    runs,         \* calls of Run on this Runner, the current one included
    firstCfg      \* r.cfg as the first call of Run left it (<<>> before)

cfgVars == <<cfg, fs, envPath, envVars, applied, idx>>
buildVars == <<srv, mux, lw, builderCalls>>
sigVars == <<notified, sigChan, delivered>>
ctxVars == <<ctx, cancelledBy>>
srvVars == <<srvTask, inShutdownFlag, shutdownErr, shutdownCalls>>
appVars == <<factoryCalls, factoryCfg, runCalls, runReturns>>
callVars == <<runs, firstCfg>>
vars == <<variant, appChars, envPrefix, activeConns, callVars, pc, cfgVars, buildVars, sigVars, ctxVars, listener, srvVars, spawned, appVars, outcome, earlySig, killed, exitCode>>

\* ------------------------------------------------------------- initial
InitFrom(inputs, names) ==
    /\ variant \in Variants
    /\ appChars \in names
    /\ envPrefix = <<>>
    /\ activeConns = 0
    /\ runs = 1
    /\ firstCfg = <<>>
    /\ \E i \in inputs[variant] : fs = i.fs /\ envPath = i.envPath /\ envVars = i.envVars
    /\ pc = "start"
    /\ idx = 1
    /\ cfg = BaseCfg
    /\ applied = <<>>
    /\ srv = "nil"
    /\ mux = NilMux
    /\ lw = 1
    /\ builderCalls = 0
    /\ notified = FALSE
    /\ sigChan = <<>>
    /\ delivered = 0
    /\ ctx = "none"
    /\ cancelledBy = "none"
    /\ listener = "none"
    /\ srvTask = "none"
    /\ inShutdownFlag = FALSE
    /\ shutdownErr = FALSE
    /\ spawned = <<>>
    /\ factoryCalls = 0
    /\ factoryCfg = <<>>
    /\ runCalls = 0
    /\ runReturns = 0
    /\ shutdownCalls = 0
    /\ outcome = [cfg |-> "none", fct |-> "none", run |-> "none", at |-> 0]
    /\ earlySig = FALSE
    /\ killed = FALSE
    /\ exitCode = -1

Init == InitFrom([v \in Variants |-> LifecycleInputs(v)], {AppNameChars})

\* The process is running: not ended by os.Exit, a signal's default action
\* or a panic.
Alive == ~killed /\ pc \notin {"exited", "panicked"}

\* ------------------------------------------------ leaving the primary path
\* return code: the deferred ctxC() runs when the context exists.
Return(code) ==
    /\ pc' = "returned"
    /\ exitCode' = code
    /\ ctx' = IF ctx = "none" THEN "none" ELSE "cancelled"
    /\ cancelledBy' = IF ctx = "active" THEN "defer" ELSE cancelledBy

\* os.Exit(code): the process ends, no deferred call runs.
Exit(code) ==
    /\ pc' = "exited"
    /\ exitCode' = code
    /\ UNCHANGED ctxVars

\* A fatal step: return 1, or os.Exit(1) in the legacy runner.
Fatal == IF variant = "RunLegacy" THEN Exit(1) ELSE Return(1)

\* Go on with step l; the last step is return 0 (the legacy runner returns
\* no value).
Advance(l) ==
    IF l = "return"
    THEN Return(IF variant = "RunLegacy" THEN -1 ELSE 0)
    ELSE pc' = l /\ UNCHANGED <<exitCode, ctxVars>>

\* --------------------------------------------------------------- builders
CanBuild == Alive /\ variant = "Runner" /\ pc = "start" /\ builderCalls < MaxBuilderCalls

\* WithHTTPServer(s): panics when a server is set already; else SrvMux is
\* assigned first, then s.Handler is written, which panics on a nil s with
\* SrvMux already replaced, then r.srv is set.
SetHTTPServer(s) ==
    /\ CanBuild
    /\ builderCalls' = builderCalls + 1
    /\ IF srv # "nil"
       THEN pc' = "panicked" /\ UNCHANGED <<srv, mux>>
       ELSE IF s = "nil"
            THEN mux' = NewServeMux /\ pc' = "panicked" /\ UNCHANGED srv
            ELSE srv' = s /\ mux' = NewServeMux /\ UNCHANGED pc
    /\ UNCHANGED <<variant, appChars, envPrefix, activeConns, callVars, earlySig, killed, cfgVars, lw, sigVars, ctxVars, listener, srvVars, spawned, appVars, outcome, exitCode>>

\* The caller's pointer is nil or points to a server.
WithHTTPServer == \E s \in {"nil", "custom"} : SetHTTPServer(s)

WithDefaultHTPServer == SetHTTPServer("default")

WithLogWriter ==
    /\ CanBuild
    /\ builderCalls' = builderCalls + 1
    /\ lw' = lw + 1
    /\ UNCHANGED <<variant, appChars, envPrefix, activeConns, callVars, earlySig, killed, pc, cfgVars, srv, mux, sigVars, ctxVars, listener, srvVars, spawned, appVars, outcome, exitCode>>

\* ServeMux.Handle panics on a pattern registered twice.
WithMetricsHandler ==
    /\ CanBuild
    /\ builderCalls' = builderCalls + 1
    /\ IF srv = "nil" \/ "/metrics" \in mux.routes
       THEN pc' = "panicked" /\ UNCHANGED mux
       ELSE mux' = [mux EXCEPT !.routes = @ \cup {"/metrics"}] /\ UNCHANGED pc
    /\ UNCHANGED <<variant, appChars, envPrefix, activeConns, callVars, earlySig, killed, cfgVars, srv, lw, sigVars, ctxVars, listener, srvVars, spawned, appVars, outcome, exitCode>>

\* --------------------------------------------------- configuration steps
\* Run is entered: the bootstrap of the logger is done.
Enter ==
    /\ pc = "start"
    /\ Alive
    /\ Advance(After(variant, "start"))
    /\ UNCHANGED <<variant, appChars, envPrefix, activeConns, callVars, earlySig, killed, cfgVars, buildVars, sigVars, listener, srvVars, spawned, appVars, outcome>>

\* Mutant: every error of a convention file is fatal, a missing file too.
LoadConventionFile_MissingFatal ==
    /\ pc = "conv"
    /\ Alive
    /\ LET r == LoadFromPath(fs, ConvPath(idx), cfg) IN
       IF r.err # "nil"
       THEN /\ Fatal
            /\ outcome' = [outcome EXCEPT !.cfg = "err", !.at = SrcOf(ConvPath(idx))]
            /\ UNCHANGED <<cfg, applied, idx>>
       ELSE /\ cfg' = r.cfg
            /\ applied' = Append(applied, SrcOf(ConvPath(idx)))
            /\ IF idx < NumConv
               THEN idx' = idx + 1 /\ UNCHANGED <<pc, exitCode, ctxVars>>
               ELSE Advance(After(variant, "conv")) /\ UNCHANGED idx
            /\ UNCHANGED outcome
    /\ UNCHANGED <<variant, appChars, envPrefix, activeConns, callVars, earlySig, killed, fs, envPath, envVars, buildVars, sigVars, listener, srvVars, spawned, appVars>>

\* One pass of the convention file loop.
LoadConventionFile ==
    /\ pc = "conv"
    /\ Alive
    /\ LET r == LoadFromPath(fs, ConvPath(idx), cfg) IN
       IF r.err \notin {"nil", "ErrNotExist"}
       THEN /\ Fatal
            /\ outcome' = [outcome EXCEPT !.cfg = "err", !.at = SrcOf(ConvPath(idx))]
            /\ UNCHANGED <<cfg, applied, idx>>
       ELSE /\ cfg' = r.cfg
            /\ applied' = IF r.err = "nil" THEN Append(applied, SrcOf(ConvPath(idx))) ELSE applied
            /\ IF idx < NumConv
               THEN idx' = idx + 1 /\ UNCHANGED <<pc, exitCode, ctxVars>>
               ELSE Advance(After(variant, "conv")) /\ UNCHANGED idx
            /\ UNCHANGED outcome
    /\ UNCHANGED <<variant, appChars, envPrefix, activeConns, callVars, earlySig, killed, fs, envPath, envVars, buildVars, sigVars, listener, srvVars, spawned, appVars>>

\* Mutant: a missing explicit file is skipped like a convention file.
LoadPathFile_SkipMissing ==
    /\ pc = "path"
    /\ Alive
    /\ IF envPath = <<>>
       THEN Advance(After(variant, "path")) /\ UNCHANGED <<cfg, applied, outcome>>
       ELSE LET r == LoadFromPath(fs, envPath, cfg) IN
            IF r.err \notin {"nil", "ErrNotExist"}
            THEN /\ Fatal
                 /\ outcome' = [outcome EXCEPT !.cfg = "err", !.at = PathSrc]
                 /\ UNCHANGED <<cfg, applied>>
            ELSE /\ cfg' = r.cfg
                 /\ applied' = IF r.err = "nil" THEN Append(applied, PathSrc) ELSE applied
                 /\ Advance(After(variant, "path"))
                 /\ UNCHANGED outcome
    /\ UNCHANGED <<variant, appChars, envPrefix, activeConns, callVars, earlySig, killed, fs, envPath, envVars, idx, buildVars, sigVars, listener, srvVars, spawned, appVars>>

\* The file APP_CONFIG_PATH names, when the variable is not empty.
LoadPathFile ==
    /\ pc = "path"
    /\ Alive
    /\ IF envPath = <<>>
       THEN Advance(After(variant, "path")) /\ UNCHANGED <<cfg, applied, outcome>>
       ELSE LET r == LoadFromPath(fs, envPath, cfg) IN
            IF r.err # "nil"
            THEN /\ Fatal
                 /\ outcome' = [outcome EXCEPT !.cfg = "err", !.at = PathSrc]
                 /\ UNCHANGED <<cfg, applied>>
            ELSE /\ cfg' = r.cfg
                 /\ applied' = Append(applied, PathSrc)
                 /\ Advance(After(variant, "path"))
                 /\ UNCHANGED outcome
    /\ UNCHANGED <<variant, appChars, envPrefix, activeConns, callVars, earlySig, killed, fs, envPath, envVars, idx, buildVars, sigVars, listener, srvVars, spawned, appVars>>

\* Mutant: a failure of the overlay is logged and the path goes on.
LoadEnv_IgnoreErr ==
    /\ pc = "env"
    /\ Alive
    /\ LET r == LoadFromEnv(envVars, cfg) IN
       /\ cfg' = r.cfg
       /\ applied' = IF r.err = "nil" THEN Append(applied, EnvSrc) ELSE applied
       /\ outcome' = IF r.err = "nil" THEN [outcome EXCEPT !.cfg = "ok"] ELSE [outcome EXCEPT !.cfg = "err", !.at = EnvSrc]
       /\ Advance(After(variant, "env"))
    /\ envPrefix' = EnvPrefix(variant, appChars)
    /\ UNCHANGED <<variant, appChars, activeConns, callVars, earlySig, killed, fs, envPath, envVars, idx, buildVars, sigVars, listener, srvVars, spawned, appVars>>

\* The environment overlay.
LoadEnv ==
    /\ pc = "env"
    /\ Alive
    /\ LET r == LoadFromEnv(envVars, cfg) IN
       IF r.err # "nil"
       THEN /\ Fatal
            /\ outcome' = [outcome EXCEPT !.cfg = "err", !.at = EnvSrc]
            /\ UNCHANGED <<cfg, applied>>
       ELSE /\ cfg' = r.cfg
            /\ applied' = Append(applied, EnvSrc)
            /\ outcome' = [outcome EXCEPT !.cfg = "ok"]
            /\ Advance(After(variant, "env"))
    /\ envPrefix' = EnvPrefix(variant, appChars)
    /\ UNCHANGED <<variant, appChars, activeConns, callVars, earlySig, killed, fs, envPath, envVars, idx, buildVars, sigVars, listener, srvVars, spawned, appVars>>

\* Run is called again on the same Runner after it returned: r.cfg keeps
\* the value the previous call left, the locals (sig, ctx, the listener of
\* this call) are new.
RunAgain ==
    /\ variant = "Runner"
    /\ pc = "returned"
    /\ Alive
    /\ runs < MaxRuns
    /\ runs' = runs + 1
    /\ firstCfg' = IF runs = 1 THEN cfg ELSE firstCfg
    /\ pc' = After(variant, "start")
    /\ idx' = 1
    /\ applied' = <<>>
    /\ outcome' = [cfg |-> "none", fct |-> "none", run |-> "none", at |-> 0]
    /\ exitCode' = -1
    /\ ctx' = "none"
    /\ cancelledBy' = "none"
    /\ sigChan' = <<>>
    /\ listener' = "none"
    /\ UNCHANGED <<variant, appChars, envPrefix, activeConns, cfg, fs, envPath, envVars, buildVars, notified, delivered, srvVars, spawned, appVars, earlySig, killed>>

\* ------------------------------------------------- cancellation wiring
\* signal.Notify(sig, syscall.SIGINT, syscall.SIGTERM)
Notify ==
    /\ pc = "notify"
    /\ Alive
    /\ notified' = TRUE
    /\ Advance(After(variant, "notify"))
    /\ UNCHANGED <<variant, appChars, envPrefix, activeConns, callVars, earlySig, killed, cfgVars, buildVars, sigChan, delivered, listener, srvVars, spawned, appVars, outcome>>

\* Mutant: the cancel function is called at once instead of being deferred.
CreateCtx_CancelNow ==
    /\ pc = "ctx"
    /\ Alive
    /\ ctx' = "cancelled"
    /\ cancelledBy' = "defer"
    /\ pc' = After(variant, "ctx")
    /\ UNCHANGED <<variant, appChars, envPrefix, activeConns, callVars, earlySig, killed, cfgVars, buildVars, sigVars, listener, srvVars, spawned, appVars, outcome, exitCode>>

\* ctx, ctxC := context.WithCancel(context.Background()); defer ctxC()
CreateCtx ==
    /\ pc = "ctx"
    /\ Alive
    /\ ctx' = "active"
    /\ pc' = After(variant, "ctx")
    /\ UNCHANGED <<variant, appChars, envPrefix, activeConns, callVars, earlySig, killed, cfgVars, buildVars, sigVars, cancelledBy, listener, srvVars, spawned, appVars, outcome, exitCode>>

\* go func() { s := <-sig; ...; ctxC() }()
GoListener ==
    /\ pc = "golisten"
    /\ Alive
    /\ listener' = "waiting"
    /\ spawned' = Append(spawned, "listener")
    /\ Advance(After(variant, "golisten"))
    /\ UNCHANGED <<variant, appChars, envPrefix, activeConns, callVars, earlySig, killed, cfgVars, buildVars, sigVars, srvVars, appVars, outcome>>

\* ------------------------------------------------------ the application
FactoryCall ==
    /\ pc = "factory"
    /\ Alive
    /\ pc' = "inFactory"
    /\ factoryCalls' = factoryCalls + 1
    /\ factoryCfg' = cfg
    /\ UNCHANGED <<variant, appChars, envPrefix, activeConns, callVars, earlySig, killed, cfgVars, buildVars, sigVars, ctxVars, listener, srvVars, spawned, runCalls, runReturns, outcome, exitCode>>

\* The factory returns; the legacy factory has no error result.
FactoryReturn ==
    /\ pc = "inFactory"
    /\ Alive
    /\ \E ok \in IF variant = "RunLegacy" THEN {TRUE} ELSE BOOLEAN :
         IF ok
         THEN outcome' = [outcome EXCEPT !.fct = "ok"] /\ Advance(After(variant, "factory"))
         ELSE outcome' = [outcome EXCEPT !.fct = "err"] /\ Fatal
    /\ UNCHANGED <<variant, appChars, envPrefix, activeConns, callVars, earlySig, killed, cfgVars, buildVars, sigVars, listener, srvVars, spawned, appVars>>

\* Mutant: the server goroutine is started without the nil check.
GoServer_NoNilCheck ==
    /\ pc = "gosrv"
    /\ Alive
    /\ srvTask' = "spawned"
    /\ spawned' = Append(spawned, "server")
    /\ Advance(After(variant, "gosrv"))
    /\ UNCHANGED <<variant, appChars, envPrefix, activeConns, callVars, earlySig, killed, cfgVars, buildVars, sigVars, listener, inShutdownFlag, shutdownErr, shutdownCalls, appVars, outcome>>

\* if r.srv != nil { go func() { ... r.srv.ListenAndServe() ... }() }
GoServer ==
    /\ pc = "gosrv"
    /\ Alive
    /\ IF srv # "nil"
       THEN srvTask' = "spawned" /\ spawned' = Append(spawned, "server")
       ELSE UNCHANGED <<srvTask, spawned>>
    /\ Advance(After(variant, "gosrv"))
    /\ UNCHANGED <<variant, appChars, envPrefix, activeConns, callVars, earlySig, killed, cfgVars, buildVars, sigVars, listener, inShutdownFlag, shutdownErr, shutdownCalls, appVars, outcome>>

\* app.Run(ctx) is invoked.
AppRunCall ==
    /\ pc = "appRun"
    /\ Alive
    /\ pc' = "inRun"
    /\ runCalls' = runCalls + 1
    /\ UNCHANGED <<variant, appChars, envPrefix, activeConns, callVars, earlySig, killed, cfgVars, buildVars, sigVars, ctxVars, listener, srvVars, spawned, factoryCalls, factoryCfg, runReturns, outcome, exitCode>>

\* Mutant: the error of app.Run is logged and the path goes on.
AppRunReturn_IgnoreErr ==
    /\ pc = "inRun"
    /\ Alive
    /\ runReturns' = runReturns + 1
    /\ \E ok \in BOOLEAN : outcome' = [outcome EXCEPT !.run = IF ok THEN "ok" ELSE "err"]
    /\ Advance(After(variant, "appRun"))
    /\ UNCHANGED <<variant, appChars, envPrefix, activeConns, callVars, earlySig, killed, cfgVars, buildVars, sigVars, listener, srvVars, spawned, factoryCalls, factoryCfg, runCalls>>

\* app.Run(ctx) returns, with or without an error.
AppRunReturn ==
    /\ pc = "inRun"
    /\ Alive
    /\ runReturns' = runReturns + 1
    /\ \E ok \in BOOLEAN :
         IF ok
         THEN outcome' = [outcome EXCEPT !.run = "ok"] /\ Advance(After(variant, "appRun"))
         ELSE outcome' = [outcome EXCEPT !.run = "err"] /\ Fatal
    /\ UNCHANGED <<variant, appChars, envPrefix, activeConns, callVars, earlySig, killed, cfgVars, buildVars, sigVars, listener, srvVars, spawned, factoryCalls, factoryCfg, runCalls>>

\* if r.srv != nil { r.srv.Shutdown(context.Background()) }: Shutdown sets
\* inShutdown and closes the listeners.
ShutdownCall ==
    /\ pc = "shutdown"
    /\ Alive
    /\ IF srv # "nil"
       THEN /\ pc' = "inShutdown"
            /\ shutdownCalls' = shutdownCalls + 1
            /\ inShutdownFlag' = TRUE
            /\ UNCHANGED <<exitCode, ctxVars>>
       ELSE /\ Advance(After(variant, "shutdown"))
            /\ UNCHANGED <<shutdownCalls, inShutdownFlag>>
    /\ UNCHANGED <<variant, appChars, envPrefix, activeConns, callVars, earlySig, killed, cfgVars, buildVars, sigVars, listener, srvTask, shutdownErr, spawned, appVars, outcome>>

\* Mutant: an error of Shutdown is returned as exit code 1.
ShutdownReturn_Fatal ==
    /\ pc = "inShutdown"
    /\ Alive
    /\ activeConns = 0
    /\ \E err \in BOOLEAN :
         /\ shutdownErr' = err
         /\ IF err THEN Return(1) ELSE Advance(After(variant, "shutdown"))
    /\ UNCHANGED <<variant, appChars, envPrefix, activeConns, callVars, earlySig, killed, cfgVars, buildVars, sigVars, listener, srvTask, inShutdownFlag, shutdownCalls, spawned, appVars, outcome>>

\* Shutdown(context.Background()) returns once no connection is active:
\* with a context that is never done it waits for them without limit.  Its
\* error is only logged.
ShutdownReturn ==
    /\ pc = "inShutdown"
    /\ Alive
    /\ activeConns = 0
    /\ \E err \in BOOLEAN : shutdownErr' = err
    /\ Advance(After(variant, "shutdown"))
    /\ UNCHANGED <<variant, appChars, envPrefix, activeConns, callVars, earlySig, killed, cfgVars, buildVars, sigVars, listener, srvTask, inShutdownFlag, shutdownCalls, spawned, appVars, outcome>>

\* ------------------------------------------------------ background tasks
\* A SIGINT or SIGTERM reaches the process.  Before signal.Notify the
\* default action ends the process; after it the runtime sends on sig
\* without blocking, dropping the signal when the channel is full.
Signal ==
    /\ Alive
    /\ delivered < MaxSignals
    /\ delivered' = delivered + 1
    /\ earlySig' = (earlySig \/ (notified /\ runCalls = 0))
    /\ \E s \in Signals :
         IF notified
         THEN /\ sigChan' = IF Len(sigChan) < SigChanCap THEN Append(sigChan, s) ELSE sigChan
              /\ UNCHANGED killed
         ELSE /\ killed' = TRUE
              /\ UNCHANGED sigChan
    /\ UNCHANGED <<variant, appChars, envPrefix, activeConns, callVars, pc, cfgVars, buildVars, notified, ctxVars, listener, srvVars, spawned, appVars, outcome, exitCode>>

\* Mutant: the listener ends the process itself once it has cancelled.
ListenerRecv_ForceExit ==
    /\ Alive
    /\ listener = "waiting"
    /\ sigChan # <<>>
    /\ sigChan' = Tail(sigChan)
    /\ listener' = "done"
    /\ ctx' = "cancelled"
    /\ cancelledBy' = IF ctx = "active" THEN "signal" ELSE cancelledBy
    /\ pc' = "exited"
    /\ exitCode' = 1
    /\ UNCHANGED <<variant, appChars, envPrefix, activeConns, callVars, earlySig, killed, cfgVars, buildVars, notified, delivered, srvVars, spawned, appVars, outcome>>

\* Mutant: the listener receives in a loop, cancelling on every signal.
ListenerRecv_Loop ==
    /\ Alive
    /\ listener = "waiting"
    /\ sigChan # <<>>
    /\ sigChan' = Tail(sigChan)
    /\ listener' = "waiting"
    /\ ctx' = "cancelled"
    /\ cancelledBy' = IF ctx = "active" THEN "signal" ELSE cancelledBy
    /\ UNCHANGED <<variant, appChars, envPrefix, activeConns, callVars, earlySig, killed, pc, cfgVars, buildVars, notified, delivered, srvVars, spawned, appVars, outcome, exitCode>>

\* The listener goroutine: s := <-sig, then ctxC().
ListenerRecv ==
    /\ Alive
    /\ listener = "waiting"
    /\ sigChan # <<>>
    /\ sigChan' = Tail(sigChan)
    /\ listener' = "done"
    /\ ctx' = "cancelled"
    /\ cancelledBy' = IF ctx = "active" THEN "signal" ELSE cancelledBy
    /\ UNCHANGED <<variant, appChars, envPrefix, activeConns, callVars, earlySig, killed, pc, cfgVars, buildVars, notified, delivered, srvVars, spawned, appVars, outcome, exitCode>>

\* The server goroutine calls ListenAndServe: ErrServerClosed when the
\* server is already shutting down, else the bind succeeds or fails.
SrvListenAndServe ==
    /\ Alive
    /\ srvTask = "spawned"
    /\ IF inShutdownFlag
       THEN srvTask' = "closed"
       ELSE \E bound \in BOOLEAN : srvTask' = IF bound THEN "serving" ELSE "failed"
    /\ UNCHANGED <<variant, appChars, envPrefix, activeConns, callVars, earlySig, killed, pc, cfgVars, buildVars, sigVars, ctxVars, listener, inShutdownFlag, shutdownErr, shutdownCalls, spawned, appVars, outcome, exitCode>>

\* Serve fails while the server is not shutting down.
SrvServeFail ==
    /\ Alive
    /\ srvTask = "serving"
    /\ ~inShutdownFlag
    /\ srvTask' = "failed"
    /\ UNCHANGED <<variant, appChars, envPrefix, activeConns, callVars, earlySig, killed, pc, cfgVars, buildVars, sigVars, ctxVars, listener, inShutdownFlag, shutdownErr, shutdownCalls, spawned, appVars, outcome, exitCode>>

\* Serve returns ErrServerClosed after Shutdown closed the listener.
SrvClosed ==
    /\ Alive
    /\ srvTask = "serving"
    /\ inShutdownFlag
    /\ srvTask' = "closed"
    /\ UNCHANGED <<variant, appChars, envPrefix, activeConns, callVars, earlySig, killed, pc, cfgVars, buildVars, sigVars, ctxVars, listener, inShutdownFlag, shutdownErr, shutdownCalls, spawned, appVars, outcome, exitCode>>

\* A client's request is being served: possible while the server accepts.
ConnOpen ==
    /\ Alive
    /\ srvTask = "serving"
    /\ ~inShutdownFlag
    /\ activeConns < MaxConns
    /\ activeConns' = activeConns + 1
    /\ UNCHANGED <<variant, appChars, envPrefix, callVars, earlySig, killed, pc, cfgVars, buildVars, sigVars, ctxVars, listener, srvVars, spawned, appVars, outcome, exitCode>>

\* An active connection becomes idle; nothing obliges it to.
ConnDone ==
    /\ Alive
    /\ activeConns > 0
    /\ activeConns' = activeConns - 1
    /\ UNCHANGED <<variant, appChars, envPrefix, callVars, earlySig, killed, pc, cfgVars, buildVars, sigVars, ctxVars, listener, srvVars, spawned, appVars, outcome, exitCode>>

\* ------------------------------------------------------- specifications
Builders == WithHTTPServer \/ WithDefaultHTPServer \/ WithLogWriter \/ WithMetricsHandler

Resolve == Enter \/ LoadConventionFile \/ LoadPathFile \/ LoadEnv

Primary == Notify \/ CreateCtx \/ GoListener \/ FactoryCall \/ FactoryReturn \/ GoServer \/ AppRunCall \/ AppRunReturn \/ ShutdownCall

Background == Signal \/ ListenerRecv \/ SrvListenAndServe \/ SrvServeFail \/ SrvClosed \/ ConnOpen \/ ConnDone

Next == Builders \/ Resolve \/ Primary \/ ShutdownReturn \/ Background

Spec == Init /\ [][Next]_vars

\* Configuration resolution over every combination of sources, with no
\* auxiliary server and no signal.
CfgInit == InitFrom([v \in Variants |-> AllInputs(v)], {AppNameChars})

CfgNext == Resolve \/ Primary

CfgSpec == CfgInit /\ [][CfgNext]_vars

\* The runners started with each of the application names.
PrefixInit == InitFrom([v \in Variants |-> LifecycleInputs(v)], AppNames)

PrefixSpec == PrefixInit /\ [][CfgNext]_vars

\* Run called up to MaxRuns times on one Runner, over every combination of
\* sources.
RerunInit == CfgInit /\ variant = "Runner"

RerunNext == Resolve \/ Primary \/ RunAgain

RerunSpec == RerunInit /\ [][RerunNext]_vars

\* The scheduler runs the listener goroutine once it can receive.
FairSpec == Spec /\ WF_vars(ListenerRecv)

\* ------------------------------------------------------------- claims
Returned == pc = "returned"
AllOk == outcome.cfg = "ok" /\ outcome.fct = "ok" /\ outcome.run = "ok"
AnyErr == outcome.cfg = "err" \/ outcome.fct = "err" \/ outcome.run = "err"
ReturnsInt == variant \in {"Runner", "Run"}

\* C1: Run returns 0 exactly when configuration resolution, the factory and
\* the application's run method all succeeded and 1 otherwise; a fatal step
\* that fails is the step at which Run returns, and no later step (factory,
\* run method, goroutine start, Shutdown) has been performed.
C1_ExitCode ==
    ReturnsInt =>
        /\ Returned => exitCode \in {0, 1} /\ (exitCode = 0 <=> AllOk)
        /\ AnyErr => Returned /\ exitCode = 1
        /\ outcome.cfg = "err" => factoryCalls = 0 /\ outcome.fct = "none"
        /\ outcome.fct = "err" => runCalls = 0 /\ outcome.run = "none" /\ srvTask = "none"
        /\ outcome.run = "err" => shutdownCalls = 0

C1_Witness ==
    /\ variant = "Runner" /\ Returned /\ srv # "nil"
    /\ outcome.cfg = "ok" /\ outcome.fct = "ok" /\ outcome.run = "err" /\ exitCode = 1

\* C2 (as claimed): with a server configured, once the run method has been
\* invoked and Run has returned, Shutdown was invoked exactly once, and
\* never before the run method returned.
C2_ShutdownAlways ==
    (variant = "Runner" /\ srv # "nil" /\ runCalls > 0) =>
        /\ shutdownCalls <= 1
        /\ shutdownCalls > 0 => runReturns > 0
        /\ Returned => shutdownCalls = 1

\* C3: when the factory returned an error, the server goroutine (the task
\* that calls ListenAndServe) has not been started, server configured or not.
C3_NoStartAfterFactoryError ==
    outcome.fct = "err" => srvTask = "none" /\ \A i \in 1..Len(spawned) : spawned[i] # "server"

C3_Witness == variant = "Runner" /\ srv # "nil" /\ outcome.fct = "err" /\ Returned

\* C4: a signal that arrives after signal.Notify and before the run method
\* is invoked is not lost: while the run method runs, the signal is either
\* still buffered for the waiting listener or has cancelled the context,
\* and with the listener scheduled fairly the context is cancelled by it
\* unless the run method returns first.
C4_NoLostSignal ==
    /\ [](earlySig /\ pc = "inRun" => (listener = "waiting" /\ sigChan # <<>>) \/ cancelledBy = "signal")
    /\ ((earlySig /\ pc = "inRun") ~> (cancelledBy = "signal" \/ pc # "inRun"))

C4_Witness ==
    /\ variant = "Runner" /\ earlySig /\ delivered = 1
    /\ pc = "inRun" /\ ctx = "cancelled" /\ cancelledBy = "signal"

\* The sources a runner reads, and what the run's inputs hold for each.
SourcesOf(v) == IF v = "RunLegacy" THEN {PathSrc, EnvSrc} ELSE 1..EnvSrc
SrcContent(k) ==
    CASE k = EnvSrc -> envVars
      [] k = PathSrc -> IF envPath = <<>> THEN Content("missing", {}, k) ELSE fs[envPath]
      [] OTHER -> fs[SourceFiles[k]]
Present(k) == SrcContent(k).kind = "ok"
Malformed(k) == SrcContent(k).kind = "bad"
PathFileMissing == envPath # <<>> /\ fs[envPath].kind = "missing"
NoConvFile == \A k \in 1..NumConv : SrcContent(k).kind = "missing"
Range(q) == {q[i] : i \in 1..Len(q)}
Highest(S) == CHOOSE k \in S : \A j \in S : j <= k

\* C5: when the factory is invoked, every source of the runner has been
\* processed without a fatal error and every present one applied, and the
\* value the factory received is the resolved one; after a fatal
\* configuration step neither the factory nor the run method is invoked.
C5_ResolvedBeforeFactory ==
    /\ factoryCalls > 0 =>
        /\ outcome.cfg = "ok"
        /\ Range(applied) = {k \in SourcesOf(variant) : Present(k)}
        /\ \A k \in SourcesOf(variant) : ~Malformed(k)
        /\ ~PathFileMissing
        /\ factoryCfg = cfg
    /\ outcome.cfg = "err" => factoryCalls = 0 /\ runCalls = 0

C5_Witness == variant = "Runner" /\ runCalls > 0 /\ Len(applied) = EnvSrc

\* The value of field f after successive overwrites in the order of
\* SourceFiles and then the environment.
C6_Expected(f) ==
    LET setters == {k \in 1..EnvSrc : Present(k) /\ f \in DOMAIN SrcContent(k).vals}
    IN IF setters = {} THEN BaseCfg[f] ELSE SrcContent(Highest(setters)).vals[f]

\* C6: the configuration the factory receives holds, in every field, the
\* value of the last source that sets it in the order config.yaml,
\* config.json, {appName}.yaml, {appName}.json, explicit file, environment,
\* and the base value when no source sets the field.
C6_LayeredOverwrite ==
    (ReturnsInt /\ factoryCalls > 0) => \A f \in Fields : factoryCfg[f] = C6_Expected(f)

\* base {timeout: 30}, config.yaml {timeout: 60}, environment 90: timeout 90.
C6_Witness ==
    /\ variant = "Runner" /\ factoryCalls > 0
    /\ \A k \in 1..PathSrc : Present(k) <=> k = 1
    /\ DOMAIN SrcContent(1).vals = {"timeout"} /\ SrcContent(1).vals["timeout"] = 60
    /\ Present(EnvSrc) /\ DOMAIN envVars.vals = {"timeout"}
    /\ factoryCfg["timeout"] = 90 /\ factoryCfg["retries"] = 30

\* C7: when APP_CONFIG_PATH names a file that does not exist, the runner
\* never gets past the explicit-path step: the factory is not invoked and
\* the run ends with exit status 1.
C7_MissingExplicitPathFails ==
    PathFileMissing =>
        /\ factoryCalls = 0
        /\ pc \in {"start", "conv", "path", "returned", "exited"}
        /\ pc \in {"returned", "exited"} => exitCode = 1

C7_Witness ==
    /\ PathFileMissing /\ NoConvFile /\ Present(EnvSrc)
    /\ variant = "Runner" /\ Returned /\ outcome.at = PathSrc /\ exitCode = 1

\* C8 (as claimed): with no convention file and no explicit path, resolution
\* succeeds and the factory receives the base overlaid with the environment.
C8_Original ==
    (ReturnsInt /\ NoConvFile /\ envPath = <<>>) =>
        /\ outcome.cfg # "err"
        /\ factoryCalls > 0 => factoryCfg = ApplyOverrides(BaseCfg, envVars.vals)

\* C8 (amended): with no convention file, no explicit path and an
\* environment overlay that loads, resolution succeeds and the factory
\* receives the base overlaid with the environment only; a load failure at
\* a convention file is never for a missing file, and a malformed
\* convention file is fatal.
C8_ConventionFiles ==
    ReturnsInt =>
        /\ (NoConvFile /\ envPath = <<>> /\ Present(EnvSrc)) =>
            /\ outcome.cfg # "err"
            /\ factoryCalls > 0 => factoryCfg = ApplyOverrides(BaseCfg, envVars.vals)
        /\ outcome.at \in 1..NumConv => Malformed(outcome.at)
        /\ (\E k \in 1..NumConv : Malformed(k)) =>
            /\ factoryCalls = 0
            /\ pc \in {"start", "conv", "returned"}
            /\ Returned => exitCode = 1 /\ outcome.at \in 1..NumConv

C8_Witness ==
    /\ variant = "Runner" /\ NoConvFile /\ envPath = <<>>
    /\ DOMAIN envVars.vals = {"retries"} /\ Present(EnvSrc)
    /\ factoryCalls > 0 /\ factoryCfg["retries"] = 90 /\ factoryCfg["timeout"] = 30

\* C9: a failed ListenAndServe leaves the invocation of the run method
\* enabled, and with the server task failed or Shutdown having returned an
\* error the exit code is still 0 exactly when configuration, factory and
\* run method succeeded.
C9_ServerFailureAbsorbed ==
    /\ (srvTask = "failed" /\ pc = "appRun") => ENABLED AppRunCall
    /\ ((srvTask = "failed" \/ shutdownErr) /\ Returned) =>
        (exitCode = 0 <=> AllOk) /\ (exitCode = 1 <=> AnyErr)

C9_Witness == Returned /\ srvTask = "failed" /\ shutdownErr /\ exitCode = 0

\* C10: without a server no server goroutine is started and Shutdown is
\* never invoked, the listener being the only goroutine; with a server the
\* goroutines started are the listener and then the server, once each.
C10_BackgroundTasks ==
    /\ srv = "nil" => srvTask = "none" /\ shutdownCalls = 0 /\ spawned \in {<<>>, <<"listener">>}
    /\ spawned \in {<<>>, <<"listener">>, <<"listener", "server">>}
    /\ Len(spawned) <= 2

C10_Witness == variant = "Runner" /\ srv = "nil" /\ Returned /\ exitCode = 0 /\ spawned = <<"listener">>

C12_OneShot ==
    [][ /\ (ctx = "cancelled" => ctx' = "cancelled" /\ cancelledBy' = cancelledBy)
        /\ (listener = "done" => listener' = "done")
        /\ (Len(sigChan') < Len(sigChan) => listener = "waiting" /\ listener' = "done")
        /\ (listener = "done" /\ delivered' # delivered =>
                UNCHANGED <<pc, ctx, cancelledBy, exitCode, killed, listener>>) ]_vars

C12_Witness ==
    /\ delivered = 2 /\ listener = "done" /\ sigChan # <<>>
    /\ ctx = "cancelled" /\ cancelledBy = "signal" /\ pc = "inRun"

\* C13: until Run has returned, the context is cancelled only by the
\* listener having received a signal: never by the deferred cancel, by a
\* failure of the server or by its shutdown; in particular while the run
\* method executes.
C13_OnlySignalCancels ==
    /\ (pc # "returned" /\ ctx = "cancelled" =>
            cancelledBy = "signal" /\ listener = "done" /\ delivered > 0)
    /\ (cancelledBy = "defer" => pc = "returned")
    /\ (pc = "inRun" /\ listener # "done" => ctx = "active")

C13_Witness ==
    /\ pc = "inRun" /\ srvTask = "failed"
    /\ ctx = "cancelled" /\ cancelledBy = "signal" /\ listener = "done"

\* C14: cancellation is cooperative: from the invocation of the run method
\* until it has returned, Run stays at that call, has no exit code and has
\* not asked the server to stop, cancelled or not; and when the run method
\* returns success after a cancellation, Run returns 0.
C14_Cooperative ==
    /\ (runCalls > runReturns =>
            /\ pc = "inRun" /\ exitCode = -1
            /\ shutdownCalls = 0 /\ ~inShutdownFlag)
    /\ (ReturnsInt /\ Returned /\ AllOk /\ cancelledBy = "signal" => exitCode = 0)

C14_Witness ==
    /\ variant = "Runner" /\ pc = "returned" /\ exitCode = 0
    /\ cancelledBy = "signal" /\ runReturns = 1 /\ shutdownCalls = 1

C18_NoServerLeft ==
    Returned => (srvTask \in {"spawned", "serving"} => inShutdownFlag)

\* C19: after any sequence of builder calls, a panicking one included, the
\* runtime handle's SrvMux is non-nil exactly when a server is set.
C19_MuxIffServer == mux.nonNil <=> srv # "nil"

\* C15: the primary path is never held up by a background task: as long
\* as Run has not returned and the process lives, its next step can be
\* taken at once, the return of a call it made (the factory, the run
\* method, Shutdown) included.
C15_NeverWaits ==
    (Alive /\ pc # "returned") => ENABLED (Resolve \/ Primary \/ ShutdownReturn)

\* The name with each separator character replaced by an underscore.
Normalize(name) ==
    [i \in 1..Len(name) |-> IF name[i] \in {"-", "."} THEN "_" ELSE name[i]]

\* The same letters, whatever their case.
Upper(str) ==
    [i \in 1..Len(str) |->
        CASE str[i] = "a" -> "A" [] str[i] = "b" -> "B" [] str[i] = "c" -> "C"
          [] str[i] = "m" -> "M" [] str[i] = "p" -> "P" [] str[i] = "y" -> "Y"
          [] OTHER -> str[i]]

\* C17 as stated: in every runner the prefix of the environment overlay is
\* the application name with '-' and '.' replaced by '_' (the case of the
\* letters left aside).
C17_Original ==
    envPrefix # <<>> => Upper(envPrefix) = Upper(Normalize(appChars))

\* C17: in the legacy Run the prefix of the environment overlay is the
\* application name with every '-' and every '.' replaced by '_', for every
\* application name; Runner.Run and Run pass the fixed prefix "APP",
\* whatever the application name.
C17_EnvPrefix ==
    envPrefix # <<>> =>
        IF variant = "RunLegacy"
        THEN envPrefix = Normalize(appChars)
        ELSE envPrefix = <<"A", "P", "P">>

C17_Witness ==
    /\ variant = "RunLegacy" /\ appChars = <<"a", "-", ".", "b", "-", "c">>
    /\ envPrefix = <<"a", "_", "_", "b", "_", "c">> /\ outcome.cfg = "ok"

====
